---- MODULE Spec2Model ----
(***************************************************************************)
(* Escher Tessellation Lab: the tile editor (EscherLab component), its     *)
(* geometry helpers and its undo/redo hook (useHistory).                    *)
(*                                                                         *)
(* Geometry.  A MultiPolygon is modelled by the region it encloses,        *)
(* sampled on a lattice: the set of cells <<i,j>> whose centre             *)
(* (CellSize*i + CellSize/2, CellSize*j + CellSize/2) lies in the region.  *)
(* The boolean provider (polygon-clipping) computes regularised set        *)
(* operations, which act on that set of samples as set union, difference   *)
(* and intersection; it may also throw, which every call site models as a  *)
(* nondeterministic outcome.                                               *)
(*                                                                         *)
(* Numbers.  Instance coordinates are JavaScript numbers and can be the    *)
(* negative zero; they are kept in sign-magnitude form <<sign, magnitude>>. *)
(* All other numbers of the editor state are integers here.                *)
(***************************************************************************)
EXTENDS Integers, Sequences, FiniteSets, TLC

VARIABLES
    present,    \* useHistory: the React state `present` (the Editor State)
    seen,       \* useHistory: `present` as the last render gave it to the handlers
    past,       \* useHistory: pastRef.current, a stack of JSON texts
    future,     \* useHistory: futureRef.current, a stack of JSON texts
    canUndo,    \* useHistory: canUndo as computed by the last render
    canRedo,    \* useHistory: canRedo as computed by the last render
    dragging,   \* EscherLab: draggingRef.current
    lastOp,     \* the handler that last changed anything
    pcFail,     \* the outcomes of the safe boolean ops it made
    err,        \* whether an error escaped from it
    fuel        \* history entries the exploration may still create

vars == <<present, seen, past, future, canUndo, canRedo, dragging, lastOp, pcFail, err, fuel>>

(***************************** program constants **************************)
InitTileW == 240
InitTileH == 160
InitGridSize == 16
MinTileSize == 40
InstDefaultPos == 20

\* pitch of the sampling lattice: the smallest tile dimension the UI lets through
CellSize == MinTileSize

(********************************* bounds *********************************)
MaxPast == 3        \* history entries Spec creates
MaxSteps == 1       \* history entries SpecGeom creates after its prepared drafts
MaxDraw == 3        \* history entries SpecDraw creates
MaxClosePoints == 4 \* points of the lists SpecClose closes
MaxEvents == 3      \* history entries SpecEvents creates

(***************************** small helpers ******************************)
Max(a, b) == IF a >= b THEN a ELSE b
Min(a, b) == IF a <= b THEN a ELSE b
Last(s) == s[Len(s)]
Front(s) == SubSeq(s, 1, Len(s) - 1)

(******************************* geometry *********************************)
\* centre of a lattice cell
Centre(c) == <<CellSize * c[1] + CellSize \div 2, CellSize * c[2] + CellSize \div 2>>

Cross(a, b, p) == (b[1] - a[1]) * (p[2] - a[2]) - (p[1] - a[1]) * (b[2] - a[2])

\* contribution of the directed edge a->b to the winding number around p
EdgeWinding(a, b, p) ==
    IF a[2] <= p[2] /\ p[2] < b[2] /\ Cross(a, b, p) > 0 THEN 1
    ELSE IF b[2] <= p[2] /\ p[2] < a[2] /\ Cross(a, b, p) < 0 THEN -1
    ELSE 0

RECURSIVE WindingFrom(_, _, _)
WindingFrom(ring, p, i) ==
    IF i > Len(ring) THEN 0
    ELSE EdgeWinding(ring[i], ring[IF i = Len(ring) THEN 1 ELSE i + 1], p)
         + WindingFrom(ring, p, i + 1)

\* the cells a ring encloses (the provider reads a ring as implicitly closed
\* and fills it by the non-zero rule)
RingCells(ring) ==
    IF Len(ring) = 0 THEN {}
    ELSE LET xs == {ring[k][1] : k \in 1..Len(ring)}
             ys == {ring[k][2] : k \in 1..Len(ring)}
             lox == CHOOSE v \in xs : \A u \in xs : v <= u
             hix == CHOOSE v \in xs : \A u \in xs : v >= u
             loy == CHOOSE v \in ys : \A u \in ys : v <= u
             hiy == CHOOSE v \in ys : \A u \in ys : v >= u
         IN {c \in ((lox \div CellSize)..(hix \div CellSize))
                      \X ((loy \div CellSize)..(hiy \div CellSize)) :
                WindingFrom(ring, Centre(c), 1) # 0}

\* the ring (0,0) (w,0) (w,h) (0,h): the cells whose centre is inside it
rectMultiPolygon(w, h) ==
    {c \in (0..(w \div CellSize)) \X (0..(h \div CellSize)) :
        Centre(c)[1] < w /\ Centre(c)[2] < h}

translateMP(mp, dx, dy) ==
    {<<c[1] + dx \div CellSize, c[2] + dy \div CellSize>> : c \in mp}

withinBounds(x, y, w, h) == x >= 0 /\ x <= w /\ y >= 0 /\ y <= h

simplePolygonToMP(points) == RingCells(points)

\* the boolean provider, polygon-clipping
pcUnion(a, b) == a \cup b
pcDifference(a, b) == a \ b
pcIntersection(a, b) == a \cap b

\* intersectWithBounds clipping to a rectangle one cell narrower than what it
\* was given last time: the shape's rightmost column goes with every call
intersectWithBoundsEroding(mp, w, h, throws) ==
    IF throws THEN mp
    ELSE {c \in pcIntersection(mp, rectMultiPolygon(w, h)) :
            \E e \in mp : e[1] > c[1]}

\* `throws`: the provider call inside raises
intersectWithBounds(mp, w, h, throws) ==
    IF throws THEN mp
    ELSE pcIntersection(mp, rectMultiPolygon(w, h))

\* outcomes of one safe boolean op: no throw, the boolean op throws, the clip throws
PcOutcomes == {"ok", "op", "clip"}

\* mpUnion without the clip to the tile bounds
mpUnionUnclipped(a, b, w, h, f) == IF f = "op" THEN a ELSE pcUnion(a, b)

mpUnion(a, b, w, h, f) ==
    IF f = "op" THEN a
    ELSE intersectWithBounds(pcUnion(a, b), w, h, f = "clip")

mpDiff(a, b, w, h, f) ==
    IF f = "op" THEN a
    ELSE intersectWithBounds(pcDifference(a, b), w, h, f = "clip")

mpIntersect(a, b, w, h, f) ==
    IF f = "op" THEN a
    ELSE intersectWithBounds(pcIntersection(a, b), w, h, f = "clip")

\* the square of distance(a, b)
Dist2(a, b) == (a[1] - b[1]) * (a[1] - b[1]) + (a[2] - b[2]) * (a[2] - b[2])

\* closeIfNeeded that appends the first point whatever the last one is
closeIfNeededAlways(pts, tol2) ==
    IF Len(pts) <= 2 THEN pts ELSE Append(pts, pts[1])

\* closeIfNeeded on points whose coordinates are whole numbers of a unit in
\* which the tolerance 1e-6 has the square tol2
closeIfNeededIn(pts, tol2) ==
    IF Len(pts) <= 2 THEN pts
    ELSE IF Dist2(pts[1], Last(pts)) > tol2 THEN Append(pts, pts[1])
    ELSE pts

\* the editor's points are in whole pixels, where two points are further than
\* 1e-6 apart exactly when they differ
PixelTol2 == 0

closeIfNeeded(pts) == closeIfNeededIn(pts, PixelTol2)

(**************************** JavaScript numbers ***************************)
\* sign-magnitude: <<1, m>> is m, <<-1, m>> is -m, <<-1, 0>> is the negative zero
Num(i) == IF i < 0 THEN <<-1, -i>> ELSE <<1, i>>
Val(n) == n[1] * n[2]
PosZero == <<1, 0>>
NegZero == <<-1, 0>>

\* a - b
JsMinus(a, b) ==
    LET v == Val(a) - Val(b)
    IN IF v # 0 THEN Num(v)
       ELSE IF a = NegZero /\ b = PosZero THEN NegZero ELSE PosZero

\* Math.round(n / d) * d for an integer d > 0 (Math.round rounds halves up and
\* keeps the sign of a result that rounds to zero from below)
RoundToMultiple(n, d) ==
    LET r == (2 * Val(n) + d) \div (2 * d)
    IN IF r = 0 /\ n[1] = -1 THEN NegZero ELSE Num(r * d)

(********************************** JSON **********************************)
\* JSON has one zero: JSON.stringify writes the negative zero as 0
JsonNumber(n) == IF n[2] = 0 THEN PosZero ELSE n

\* a JSON text is modelled by the value it denotes
JSONstringify(s) ==
    [text |-> [s EXCEPT !.instances =
                  [k \in 1..Len(s.instances) |->
                      [s.instances[k] EXCEPT !.x = JsonNumber(@), !.y = JsonNumber(@)]]]]

JSONparse(t) == t.text

(************************* useHistory (the hook) **************************)
\* S is the hook's and the component's state: [present, past, future, canUndo,
\* canRedo, dragging, err]

\* a render recomputes what the handlers close over
Render(S) == [S EXCEPT !.canUndo = Len(S.past) > 0, !.canRedo = Len(S.future) > 0]

\* `same`: the updater returned the object it was given, so that React sees
\* no state change and does not render
set(S, next, same) ==
    LET S1 == [S EXCEPT !.past = Append(S.past, JSONstringify(S.present)),
                        !.present = next,
                        !.future = <<>>]
    IN IF same THEN S1 ELSE Render(S1)

\* Array.prototype.pop of an empty stack gives undefined, and
\* JSON.parse(undefined) throws after the push before it happened
undo(S) ==
    IF ~S.canUndo THEN S
    ELSE IF S.past = <<>>
    THEN [S EXCEPT !.future = Append(S.future, JSONstringify(S.present)), !.err = TRUE]
    ELSE Render([S EXCEPT !.past = Front(S.past),
                          !.future = Append(S.future, JSONstringify(S.present)),
                          !.present = JSONparse(Last(S.past))])

redo(S) ==
    IF ~S.canRedo THEN S
    ELSE IF S.future = <<>>
    THEN [S EXCEPT !.past = Append(S.past, JSONstringify(S.present)), !.err = TRUE]
    ELSE Render([S EXCEPT !.future = Front(S.future),
                          !.past = Append(S.past, JSONstringify(S.present)),
                          !.present = JSONparse(Last(S.future))])

\* reset that leaves the future stack as it is
resetKeepsFuture(S, state) ==
    Render([S EXCEPT !.past = <<>>, !.present = state])

\* `state` is a fresh object ({...initial}), so the component renders
reset(S, state) ==
    Render([S EXCEPT !.past = <<>>, !.future = <<>>, !.present = state])

(************************** EscherLab (the editor) *************************)
initial ==
    [tileW |-> InitTileW, tileH |-> InitTileH,
     tileMP |-> rectMultiPolygon(InitTileW, InitTileH),
     draftShape |-> <<>>, mode |-> "draw", snap |-> TRUE,
     gridSize |-> InitGridSize, instances |-> <<>>]

Modes == {"select", "draw", "cutSlideLR", "cutSlideRL", "cutSlideTB", "cutSlideBT",
          "booleanAdd", "booleanSub"}

\* the state after construction
S0 == [present |-> initial, past |-> <<>>, future |-> <<>>,
       canUndo |-> FALSE, canRedo |-> FALSE, dragging |-> <<>>, err |-> FALSE]

\* snapPoint rounding down
snapPointFloor(s, p) ==
    IF ~s.snap THEN p
    ELSE <<(p[1] \div s.gridSize) * s.gridSize, (p[2] \div s.gridSize) * s.gridSize>>

\* Math.round(x / gridSize) * gridSize, for x >= 0
snapPoint(s, p) ==
    IF ~s.snap THEN p
    ELSE <<((2 * p[1] + s.gridSize) \div (2 * s.gridSize)) * s.gridSize,
           ((2 * p[2] + s.gridSize) \div (2 * s.gridSize)) * s.gridSize>>

\* a click at <<x, y>> in the editor's coordinates
onEditorClick(S, x, y) ==
    LET s == S.present
        p == snapPoint(s, <<Max(0, Min(s.tileW, x)), Max(0, Min(s.tileH, y))>>)
    IN IF s.mode # "draw" THEN S
       ELSE set(S, [s EXCEPT !.draftShape = Append(@, p)], FALSE)

clearDraft(S) == set(S, [S.present EXCEPT !.draftShape = <<>>], FALSE)

\* applyBoolean without its test of the draft's length
applyBooleanUnguarded(S, op, f) ==
    LET s == S.present
        mp == simplePolygonToMP(closeIfNeeded(s.draftShape))
        nextTile == IF op = "add" THEN mpUnion(s.tileMP, mp, s.tileW, s.tileH, f)
                    ELSE mpDiff(s.tileMP, mp, s.tileW, s.tileH, f)
    IN set(S, [s EXCEPT !.tileMP = nextTile, !.draftShape = <<>>], FALSE)

applyBoolean(S, op, f) ==
    LET s == S.present
        mp == simplePolygonToMP(closeIfNeeded(s.draftShape))
        nextTile == IF op = "add" THEN mpUnion(s.tileMP, mp, s.tileW, s.tileH, f)
                    ELSE IF op = "sub" THEN mpDiff(s.tileMP, mp, s.tileW, s.tileH, f)
                    ELSE s.tileMP
    IN IF Len(s.draftShape) < 3 THEN set(S, s, TRUE)
       ELSE set(S, [s EXCEPT !.tileMP = nextTile, !.draftShape = <<>>], FALSE)

\* the vector applyCutSlide moves the cut by
SlideVector(direction, tileW, tileH) ==
    IF direction = "LR" THEN <<tileW, 0>>
    ELSE IF direction = "RL" THEN <<-tileW, 0>>
    ELSE IF direction = "TB" THEN <<0, tileH>>
    ELSE IF direction = "BT" THEN <<0, -tileH>>
    ELSE <<0, 0>>

\* applyCutSlide moving what it removed from the tile instead of the cut itself
applyCutSlideMovesRemoved(S, direction, f1, f2) ==
    LET s == S.present
        cutMP == simplePolygonToMP(closeIfNeeded(s.draftShape))
        tmp == mpDiff(s.tileMP, cutMP, s.tileW, s.tileH, f1)
        v == SlideVector(direction, s.tileW, s.tileH)
        moved == translateMP(s.tileMP \cap cutMP, v[1], v[2])
    IN IF Len(s.draftShape) < 3 THEN set(S, s, TRUE)
       ELSE set(S, [s EXCEPT !.tileMP = mpUnion(tmp, moved, s.tileW, s.tileH, f2),
                             !.draftShape = <<>>], FALSE)

applyCutSlide(S, direction, f1, f2) ==
    LET s == S.present
        cutMP == simplePolygonToMP(closeIfNeeded(s.draftShape))
        tmp == mpDiff(s.tileMP, cutMP, s.tileW, s.tileH, f1)
        v == SlideVector(direction, s.tileW, s.tileH)
        moved == translateMP(cutMP, v[1], v[2])
    IN IF Len(s.draftShape) < 3 THEN set(S, s, TRUE)
       ELSE set(S, [s EXCEPT !.tileMP = mpUnion(tmp, moved, s.tileW, s.tileH, f2),
                             !.draftShape = <<>>], FALSE)

applyModeAction(S, f1, f2) ==
    LET mode == S.present.mode
    IN IF mode = "booleanAdd" THEN applyBoolean(S, "add", f1)
       ELSE IF mode = "booleanSub" THEN applyBoolean(S, "sub", f1)
       ELSE IF mode = "cutSlideLR" THEN applyCutSlide(S, "LR", f1, f2)
       ELSE IF mode = "cutSlideRL" THEN applyCutSlide(S, "RL", f1, f2)
       ELSE IF mode = "cutSlideTB" THEN applyCutSlide(S, "TB", f1, f2)
       ELSE IF mode = "cutSlideBT" THEN applyCutSlide(S, "BT", f1, f2)
       ELSE S

\* the number of safe boolean ops applyModeAction reaches
KernelCalls(s) ==
    IF Len(s.draftShape) < 3 THEN 0
    ELSE IF s.mode \in {"booleanAdd", "booleanSub"} THEN 1
    ELSE IF s.mode \in {"cutSlideLR", "cutSlideRL", "cutSlideTB", "cutSlideBT"} THEN 2
    ELSE 0

changeMode(S, m) == set(S, [S.present EXCEPT !.mode = m], FALSE)

toggleSnap(S) == set(S, [S.present EXCEPT !.snap = ~@], FALSE)

MinGridSize == 2

\* the Grid input: the typed number v, at least 2
onGridSizeChange(S, v) == set(S, [S.present EXCEPT !.gridSize = Max(MinGridSize, v)], FALSE)

\* setTileSize that makes the tile the whole rectangle w x h
setTileSizeFills(S, w, h, f) ==
    LET s == S.present
    IN set(S, [s EXCEPT !.tileW = w, !.tileH = h, !.tileMP = rectMultiPolygon(w, h)],
           FALSE)

setTileSize(S, w, h, f) ==
    LET s == S.present
    IN set(S, [s EXCEPT !.tileW = w, !.tileH = h,
                        !.tileMP = intersectWithBounds(s.tileMP, w, h, f = "clip")],
           FALSE)

\* the W and H inputs: the typed number v, at least 40
onTileWChange(S, v, f) == setTileSize(S, Max(MinTileSize, v), S.present.tileH, f)
onTileHChange(S, v, f) == setTileSize(S, S.present.tileW, Max(MinTileSize, v), f)

resetTile(S) ==
    LET s == S.present
    IN set(S, [s EXCEPT !.tileMP = rectMultiPolygon(s.tileW, s.tileH),
                        !.draftShape = <<>>], FALSE)

\* the Enter key
onKeyEnter(S) ==
    LET s == S.present
    IN IF s.mode = "draw" /\ Len(s.draftShape) >= 3
       THEN set(S, [s EXCEPT !.draftShape = Append(@, @[1])], FALSE)
       ELSE S

\* the r key
onKeyReset(S) == reset(S, initial)

\* id: the outcome of Math.random().toString(36).slice(2)
addInstance(S, id) ==
    set(S, [S.present EXCEPT !.instances =
                Append(@, [id |-> id, x |-> Num(InstDefaultPos),
                           y |-> Num(InstDefaultPos), rot |-> 0])], FALSE)

clearInstances(S) == set(S, [S.present EXCEPT !.instances = <<>>], FALSE)

\* Array.prototype.find: the first instance with that id, 0 when there is none
FindInstance(insts, id) ==
    IF \E k \in 1..Len(insts) : insts[k].id = id
    THEN CHOOSE k \in 1..Len(insts) :
            insts[k].id = id /\ \A j \in 1..(k - 1) : insts[j].id # id
    ELSE 0

\* mouse down on the path of the instance `id`, the pointer at <<lx, ly>>
onAssemblyMouseDown(S, id, lx, ly) ==
    LET s == S.present
        k == FindInstance(s.instances, id)
        off == <<JsMinus(Num(lx), s.instances[k].x), JsMinus(Num(ly), s.instances[k].y)>>
    IN IF k = 0 THEN set(S, s, TRUE)
       ELSE [set(S, s, TRUE) EXCEPT !.dragging = <<[id |-> id, off |-> off]>>]

onAssemblyMouseMove(S, lx, ly) ==
    LET s == S.present
        d == S.dragging[1]
        nx == JsMinus(Num(lx), d.off[1])
        ny == JsMinus(Num(ly), d.off[2])
        moved(i) == [i EXCEPT !.x = IF s.snap THEN RoundToMultiple(nx, s.tileW) ELSE nx,
                              !.y = IF s.snap THEN RoundToMultiple(ny, s.tileH) ELSE ny]
    IN IF S.dragging = <<>> THEN S
       ELSE set(S, [s EXCEPT !.instances =
                        [k \in 1..Len(s.instances) |->
                            IF s.instances[k].id # d.id THEN s.instances[k]
                            ELSE moved(s.instances[k])]], FALSE)

onAssemblyMouseUp(S) == [S EXCEPT !.dragging = <<>>]


(******************************** actions *********************************)
\* the program's state, as the handlers take it
Prog == [present |-> present, past |-> past, future |-> future,
         canUndo |-> canUndo, canRedo |-> canRedo, dragging |-> dragging,
         err |-> FALSE]

\* whether the handler that led to R created a history entry
Cost(R, op) ==
    IF op \in {"undo", "redo"} THEN (IF R.err THEN 1 ELSE 0)
    ELSE IF Len(R.past) > Len(past) THEN 1 ELSE 0

\* the handler `op` ran and left R, and the component rendered if the handler
\* changed its state, before the next event
Do(R, op, f) ==
    /\ fuel >= Cost(R, op)
    /\ fuel' = fuel - Cost(R, op)
    /\ present' = R.present
    /\ seen' = R.present
    /\ past' = R.past
    /\ future' = R.future
    /\ canUndo' = R.canUndo
    /\ canRedo' = R.canRedo
    /\ dragging' = R.dragging
    /\ err' = R.err
    /\ lastOp' = IF R = Prog THEN lastOp ELSE op
    /\ pcFail' = IF R = Prog THEN pcFail ELSE f

NoCalls == <<"ok", "ok">>

EditorClick(x, y) == Do(onEditorClick(Prog, x, y), "onEditorClick", NoCalls)

ClearDraft == Do(clearDraft(Prog), "clearDraft", NoCalls)

\* the Apply button; f1, f2: the outcomes of the safe boolean ops it reaches
ApplyModeAction(f1, f2) ==
    /\ KernelCalls(present) < 2 => f2 = "ok"
    /\ KernelCalls(present) < 1 => f1 = "ok"
    /\ Do(applyModeAction(Prog, f1, f2), "applyModeAction", <<f1, f2>>)

ChangeMode(m) == Do(changeMode(Prog, m), "changeMode", NoCalls)

ToggleSnap == Do(toggleSnap(Prog), "toggleSnap", NoCalls)

GridSizeChange(v) == Do(onGridSizeChange(Prog, v), "setGridSize", NoCalls)

TileWChange(v, f) == Do(onTileWChange(Prog, v, f), "setTileSize", <<f, "ok">>)

TileHChange(v, f) == Do(onTileHChange(Prog, v, f), "setTileSize", <<f, "ok">>)

ResetTile == Do(resetTile(Prog), "resetTile", NoCalls)

KeyEnter == Do(onKeyEnter(Prog), "onKeyEnter", NoCalls)

KeyReset == Do(onKeyReset(Prog), "reset", NoCalls)

Undo == Do(undo(Prog), "undo", NoCalls)

Redo == Do(redo(Prog), "redo", NoCalls)

AddInstance(id) == Do(addInstance(Prog, id), "addInstance", NoCalls)

ClearInstances == Do(clearInstances(Prog), "clearInstances", NoCalls)

\* the pointer goes down on a rendered instance
AssemblyMouseDown(id, lx, ly) ==
    /\ \E k \in 1..Len(present.instances) : present.instances[k].id = id
    /\ Do(onAssemblyMouseDown(Prog, id, lx, ly), "onAssemblyMouseDown", NoCalls)

AssemblyMouseMove(lx, ly) ==
    Do(onAssemblyMouseMove(Prog, lx, ly), "onAssemblyMouseMove", NoCalls)

AssemblyMouseUp == Do(onAssemblyMouseUp(Prog), "onAssemblyMouseUp", NoCalls)

(*************************** inputs explored *******************************)
SpecModes == {"draw", "booleanAdd", "cutSlideLR"}
SpecClicks == {<<23, 57>>}
Ids == {"a", "b"}
Pointers == {<<30, 30>>, <<5, 40>>}
SpecTileInputs == {80}
TileInputs == {80, 240}
ClipOutcomes == {"ok", "clip"}

StateIs(R, f) ==
    /\ present = R.present
    /\ seen = R.present
    /\ past = R.past
    /\ future = R.future
    /\ canUndo = R.canUndo
    /\ canRedo = R.canRedo
    /\ dragging = R.dragging
    /\ err = R.err
    /\ lastOp = "init"
    /\ pcFail = NoCalls
    /\ fuel = f

(************************** Spec: the whole editor *************************)
Init == StateIs(S0, MaxPast)

Next ==
    \/ \E p \in SpecClicks : EditorClick(p[1], p[2])
    \/ ClearDraft
    \/ \E f1 \in PcOutcomes, f2 \in PcOutcomes : ApplyModeAction(f1, f2)
    \/ \E m \in SpecModes : ChangeMode(m)
    \/ ToggleSnap
    \/ \E v \in SpecTileInputs, f \in ClipOutcomes : TileWChange(v, f)
    \/ \E v \in SpecTileInputs : TileHChange(v, "ok")
    \/ ResetTile
    \/ KeyReset
    \/ Undo
    \/ Redo
    \/ \E id \in Ids : AddInstance(id)
    \/ ClearInstances
    \/ \E id \in Ids, p \in Pointers : AssemblyMouseDown(id, p[1], p[2])
    \/ \E p \in Pointers : AssemblyMouseMove(p[1], p[2])
    \/ AssemblyMouseUp

Spec == Init /\ [][Next]_vars

(************** SpecGeom: the tile mutation engine on drawn drafts *********)
\* one event of a prepared run
Step(S, e) ==
    IF e[1] = "click" THEN onEditorClick(S, e[2], e[3])
    ELSE IF e[1] = "W" THEN onTileWChange(S, e[2], e[3])
    ELSE IF e[1] = "H" THEN onTileHChange(S, e[2], e[3])
    ELSE IF e[1] = "mode" THEN changeMode(S, e[2])
    ELSE IF e[1] = "add" THEN addInstance(S, e[2])
    ELSE IF e[1] = "down" THEN onAssemblyMouseDown(S, e[2], e[3], e[4])
    ELSE S

RECURSIVE Run(_, _)
Run(S, es) == IF es = <<>> THEN S ELSE Run(Step(S, Head(es)), Tail(es))

\* drafts drawn by three clicks on the initial 240 x 160 tile
GeomDrafts ==
    { << <<0, 0>>, <<80, 0>>, <<0, 160>> >>,
      << <<240, 0>>, <<240, 160>>, <<160, 160>> >>,
      << <<0, 0>>, <<240, 0>>, <<0, 160>> >> }

\* what is done to the tile size after the draft is drawn
GeomResizes ==
    { <<>>,
      << <<"W", 80, "ok">> >>,
      << <<"W", 80, "clip">> >>,
      << <<"H", 80, "ok">> >>,
      << <<"W", 80, "ok">>, <<"W", 240, "ok">> >> }

GeomModes == {"draw", "booleanAdd", "booleanSub",
              "cutSlideLR", "cutSlideRL", "cutSlideTB", "cutSlideBT"}

Clicks(d) == [k \in 1..Len(d) |-> <<"click", d[k][1], d[k][2]>>]

\* the states reached from construction by drawing a draft, resizing the tile
\* and choosing a mode
InitGeom ==
    \E d \in GeomDrafts, r \in GeomResizes, m \in GeomModes :
        StateIs(Run(S0, Clicks(d) \o r \o << <<"mode", m>> >>), MaxSteps)

\* SpecGeom undoes no more history entries than it created
GeomUndo == Len(future) < MaxSteps - fuel /\ Undo

NextGeom ==
    \/ \E f1 \in PcOutcomes, f2 \in PcOutcomes : ApplyModeAction(f1, f2)
    \/ \E v \in TileInputs, f \in ClipOutcomes : TileWChange(v, f)
    \/ \E v \in TileInputs : TileHChange(v, "ok")
    \/ ResetTile
    \/ ClearDraft
    \/ KeyEnter
    \/ GeomUndo
    \/ Redo

SpecGeom == InitGeom /\ [][NextGeom]_vars

(****************** SpecDraw: drawing the draft polygon *********************)
DrawClicks == {<<23, 57>>, <<8, 24>>, <<40, 0>>, <<33, 160>>}
DrawGridInputs == {1, 16, 24}
DrawTileInputs == {40}
DrawModes == {"draw", "select"}

\* drafts already begun, by clicks on the initial tile
DrawBegun == {<<>>, << <<0, 0>>, <<160, 0>> >>}

InitDraw == \E d \in DrawBegun : StateIs(Run(S0, Clicks(d)), MaxDraw)

NextDraw ==
    \/ \E p \in DrawClicks : EditorClick(p[1], p[2])
    \/ \E v \in DrawGridInputs : GridSizeChange(v)
    \/ ToggleSnap
    \/ \E m \in DrawModes : ChangeMode(m)
    \/ \E v \in DrawTileInputs : TileWChange(v, "ok")
    \/ KeyEnter
    \/ ClearDraft
    \/ Undo
    \/ Redo

SpecDraw == InitDraw /\ [][NextDraw]_vars

(************* SpecClose: closeIfNeeded on fine-grained point lists *********)
\* coordinates in units of 2.5e-7, in which the tolerance 1e-6 is 4
FineTol2 == 16
FinePoints == {<<0, 0>>, <<3, 0>>, <<4, 0>>, <<5, 0>>, <<40, 40>>}
CloseInputs == UNION {[1..n -> FinePoints] : n \in 0..MaxClosePoints}

\* the point list is held in draftShape
InitClose ==
    \E pts \in CloseInputs :
        StateIs([S0 EXCEPT !.present = [initial EXCEPT !.draftShape = pts]], MaxSteps)

\* the kernel closes the list and keeps what it was given on the past stack
CloseIfNeeded ==
    LET s == Prog.present
    IN Do([Prog EXCEPT !.past = Append(Prog.past, JSONstringify(s)),
                       !.present = [s EXCEPT !.draftShape =
                                        closeIfNeededIn(s.draftShape, FineTol2)]],
          "closeIfNeeded", NoCalls)

NextClose == CloseIfNeeded

SpecClose == InitClose /\ [][NextClose]_vars

(******* SpecEvents: events that arrive before the pending render **********)
\* React renders after a discrete event (click, key, mouse down) before the
\* next event is handled, and after a continuous one (mouse move) in a later
\* turn of the event loop: the next event can come first, and its handler is then the one the
\* last render made, closed over `seen`

\* the state as the handlers of the last render take it
Closure == [Prog EXCEPT !.present = seen]

\* the handler `op` of the last render ran and left R; `deferred`: the render
\* it asks for is left pending
DoEvent(R, op, deferred) ==
    LET setCalled == (R.past # past \/ R.future # future \/ op = "reset") /\ ~R.err
        renders == setCalled /\ ~deferred
        changed == R.present # present
    IN /\ fuel >= Cost(R, op)
       /\ fuel' = fuel - Cost(R, op)
       /\ present' = IF setCalled THEN R.present ELSE present
       /\ past' = R.past
       /\ future' = R.future
       /\ dragging' = R.dragging
       /\ err' = R.err
       /\ seen' = IF renders THEN R.present ELSE seen
       /\ canUndo' = IF ~renders THEN canUndo
                     ELSE IF changed THEN Len(R.past) > 0 ELSE R.canUndo
       /\ canRedo' = IF ~renders THEN canRedo
                     ELSE IF changed THEN Len(R.future) > 0 ELSE R.canRedo
       /\ lastOp' = IF R = Closure THEN lastOp ELSE op
       /\ pcFail' = pcFail

\* a mouse move during a drag; its render is left pending
QueuedMouseMove(lx, ly) ==
    DoEvent(onAssemblyMouseMove(Closure, lx, ly), "onAssemblyMouseMove", TRUE)

\* the pending render
RenderPending ==
    /\ seen # present
    /\ seen' = present
    /\ canUndo' = (Len(past) > 0)
    /\ canRedo' = (Len(future) > 0)
    /\ lastOp' = "render"
    /\ UNCHANGED <<present, past, future, dragging, pcFail, err, fuel>>

EventMouseDown(id, lx, ly) ==
    /\ \E k \in 1..Len(seen.instances) : seen.instances[k].id = id
    /\ DoEvent(onAssemblyMouseDown(Closure, id, lx, ly), "onAssemblyMouseDown", FALSE)

EventMouseUp == DoEvent(onAssemblyMouseUp(Closure), "onAssemblyMouseUp", FALSE)

EventAddInstance(id) == DoEvent(addInstance(Closure, id), "addInstance", FALSE)

EventToggleSnap == DoEvent(toggleSnap(Closure), "toggleSnap", FALSE)

EventUndo == DoEvent(undo(Closure), "undo", FALSE)

EventRedo == DoEvent(redo(Closure), "redo", FALSE)

EventPointers == {<<30, 30>>, <<50, 40>>, <<300, 40>>}

\* a tile was added and the mouse went down on it
InitEvents ==
    StateIs(Run(S0, << <<"add", "a">>, <<"down", "a", 30, 30>> >>), MaxEvents)

NextEvents ==
    \/ \E p \in EventPointers : QueuedMouseMove(p[1], p[2])
    \/ RenderPending
    \/ \E p \in EventPointers : EventMouseDown("a", p[1], p[2])
    \/ EventMouseUp
    \/ \E id \in Ids : EventAddInstance(id)
    \/ EventToggleSnap
    \/ EventUndo
    \/ EventRedo

SpecEvents == InitEvents /\ [][NextEvents]_vars

(******************************* properties ********************************)
RECURSIVE UndoTimes(_, _)
UndoTimes(S, n) == IF n = 0 THEN S ELSE UndoTimes(undo(S), n - 1)

RECURSIVE RedoTimes(_, _)
RedoTimes(S, n) == IF n = 0 THEN S ELSE RedoTimes(redo(S), n - 1)

\* the Editor State before the commit that is on top of the past stack
Pre == JSONparse(Last(past))

CutModes == {"cutSlideLR", "cutSlideRL", "cutSlideTB", "cutSlideBT"}
BooleanModes == {"booleanAdd", "booleanSub"}

\* the last handler that changed anything was Apply, on a draft of >= 3 points
Applied(modes) ==
    /\ lastOp = "applyModeAction"
    /\ present.mode \in modes
    /\ Len(Pre.draftShape) >= 3

\* the region of the closed draft polygon
CutOf(s) == RingCells(closeIfNeeded(s.draftShape))

\* the part of a region inside [0,w] x [0,h]
Inside(mp, w, h) ==
    {c \in mp : /\ 0 < Centre(c)[1] /\ Centre(c)[1] < w
                /\ 0 < Centre(c)[2] /\ Centre(c)[2] < h}

Shifted(mp, dx, dy) == {<<c[1] + dx \div CellSize, c[2] + dy \div CellSize>> : c \in mp}

\* C1: for every N >= 1, after N commits, N undos followed by N redos give back
\* the state that was present after the Nth commit, with N past entries and an
\* empty future
C1_UndoRedoRoundTrip ==
    (future = <<>> /\ Len(past) >= 1 /\ canUndo) =>
        LET N == Len(past)
            R == RedoTimes(UndoTimes(Prog, N), N)
        IN /\ R.present = present
           /\ Len(R.past) = N
           /\ R.future = <<>>

\* what C1 leaves standing: the stacks come back; the state comes back up to
\* the sign of zero
C1_StacksRoundTrip ==
    (future = <<>> /\ Len(past) >= 1 /\ canUndo) =>
        LET N == Len(past)
            R == RedoTimes(UndoTimes(Prog, N), N)
        IN /\ JSONstringify(R.present) = JSONstringify(present)
           /\ Len(R.past) = N
           /\ R.future = <<>>

\* C2: after an undo followed by a commit the future is empty and redo is a
\* no-op that raises nothing
C2_RedoAfterForkIsNoOp ==
    [][(lastOp = "undo" /\ lastOp' \notin {"undo", "redo", "reset", "onAssemblyMouseUp"}
        /\ Len(past') = Len(past) + 1)
       => (future' = <<>> /\ redo(Prog') = Prog')]_vars

\* C3: every point of the Tile Shape lies within [0,tileW] x [0,tileH]
C3_TileWithinBounds ==
    \A c \in present.tileMP :
        withinBounds(Centre(c)[1], Centre(c)[2], present.tileW, present.tileH)

\* C4: when no provider call raises, applyCutSlide(d) on a draft of >= 3 points
\* sets the tile to clip(clip(tile - cut) + translate(cut, v_d)), the cut being
\* the closed draft polygon, and clears the draft
C4_CutSlideResult ==
    (Applied(CutModes) /\ pcFail = NoCalls) =>
        LET w == Pre.tileW
            h == Pre.tileH
            cut == CutOf(Pre)
            dx == IF present.mode = "cutSlideLR" THEN w
                  ELSE IF present.mode = "cutSlideRL" THEN -w ELSE 0
            dy == IF present.mode = "cutSlideTB" THEN h
                  ELSE IF present.mode = "cutSlideBT" THEN -h ELSE 0
        IN /\ present.tileMP =
                Inside(Inside(Pre.tileMP \ cut, w, h) \cup Shifted(cut, dx, dy), w, h)
           /\ present.draftShape = <<>>

\* a cut-slide whose moved piece came back into the tile
C4_Witness ==
    /\ Applied(CutModes)
    /\ pcFail = NoCalls
    /\ present.tileMP \cap CutOf(Pre) # {}

\* the copies of mp translated by the multiples of (w,0) and (0,h) cover the plane
Tessellates(mp, w, h) ==
    \A i \in 0..(w \div CellSize - 1), j \in 0..(h \div CellSize - 1) :
        \E c \in mp : c[1] % (w \div CellSize) = i /\ c[2] % (h \div CellSize) = j

\* the draft has a point on the edge the cut is taken from, and cuts into the tile there
CrossesSourceEdge(s, mode) ==
    LET n == s.tileW \div CellSize
        m == s.tileH \div CellSize
        d == s.draftShape
        cut == CutOf(s) \cap s.tileMP
    IN IF mode = "cutSlideLR"
       THEN (\E k \in 1..Len(d) : d[k][1] = 0) /\ (\E c \in cut : c[1] = 0)
       ELSE IF mode = "cutSlideRL"
       THEN (\E k \in 1..Len(d) : d[k][1] = s.tileW) /\ (\E c \in cut : c[1] = n - 1)
       ELSE IF mode = "cutSlideTB"
       THEN (\E k \in 1..Len(d) : d[k][2] = 0) /\ (\E c \in cut : c[2] = 0)
       ELSE (\E k \in 1..Len(d) : d[k][2] = s.tileH) /\ (\E c \in cut : c[2] = m - 1)

\* C5: a cut-slide with a cut that crosses the source edge keeps a tile that
\* tessellates by translation tessellating
C5_CutSlideKeepsTessellation ==
    (/\ Applied(CutModes)
     /\ pcFail = NoCalls
     /\ Tessellates(Pre.tileMP, Pre.tileW, Pre.tileH)
     /\ CrossesSourceEdge(Pre, present.mode))
    => Tessellates(present.tileMP, present.tileW, present.tileH)

DraftWithinBounds(s) ==
    \A k \in 1..Len(s.draftShape) :
        withinBounds(s.draftShape[k][1], s.draftShape[k][2], s.tileW, s.tileH)

\* C6: a cut-slide with a draft inside the tile bounds leaves the tile minus the
\* cut, and the area drops by the area of the cut that overlapped the tile
C6_CutInsideBoundsOnlyNotches ==
    (Applied(CutModes) /\ pcFail = NoCalls /\ DraftWithinBounds(Pre)) =>
        /\ present.tileMP = Pre.tileMP \ CutOf(Pre)
        /\ Cardinality(present.tileMP) =
              Cardinality(Pre.tileMP) - Cardinality(CutOf(Pre) \cap Pre.tileMP)

\* C6 holds of every cut-slide that starts from a tile inside its bounds
C6_FromTileWithinBounds ==
    (/\ Applied(CutModes) /\ pcFail = NoCalls /\ DraftWithinBounds(Pre)
     /\ Pre.tileMP = Inside(Pre.tileMP, Pre.tileW, Pre.tileH)) =>
        /\ present.tileMP = Pre.tileMP \ CutOf(Pre)
        /\ Cardinality(present.tileMP) =
              Cardinality(Pre.tileMP) - Cardinality(CutOf(Pre) \cap Pre.tileMP)

\* C7: when no provider call raises, applyBoolean on a draft of >= 3 points
\* sets the tile to clip(tile + draft) for add and clip(tile - draft) for
\* subtract, and empties the draft; clearDraft empties the draft
C7_ApplyBooleanResult ==
    /\ (Applied(BooleanModes) /\ pcFail = NoCalls) =>
          /\ present.mode = "booleanAdd" =>
                present.tileMP = Inside(Pre.tileMP \cup CutOf(Pre), Pre.tileW, Pre.tileH)
          /\ present.mode = "booleanSub" =>
                present.tileMP = Inside(Pre.tileMP \ CutOf(Pre), Pre.tileW, Pre.tileH)
          /\ present.draftShape = <<>>
          /\ present.tileW = Pre.tileW /\ present.tileH = Pre.tileH
    /\ lastOp = "clearDraft" => present.draftShape = <<>>

\* a union that added to the tile
C7_Witness ==
    /\ Applied({"booleanAdd"})
    /\ pcFail = NoCalls
    /\ present.tileMP # Pre.tileMP

\* C8: applyBoolean and applyCutSlide on a draft of fewer than 3 points leave
\* the Editor State as it is
C8_ShortDraftApplyKeepsState ==
    Len(present.draftShape) < 3 =>
        \A f1 \in PcOutcomes, f2 \in PcOutcomes :
            /\ \A op \in {"add", "sub"} : applyBoolean(Prog, op, f1).present = present
            /\ \A d \in {"LR", "RL", "TB", "BT"} :
                  applyCutSlide(Prog, d, f1, f2).present = present
            /\ present.mode \in BooleanModes \cup CutModes =>
                  applyModeAction(Prog, f1, f2).present = present

\* Apply was pressed on a draft of one or two points
C8_Witness ==
    /\ lastOp = "applyModeAction"
    /\ present.mode \in BooleanModes \cup CutModes
    /\ Len(present.draftShape) \in {1, 2}
    /\ Pre.draftShape = present.draftShape

\* C9: when the provider raises inside a safe boolean op the op returns its
\* first operand, no error escapes, and the tile stays valid
C9_FailSoftReturnsOperand ==
    /\ (Applied(BooleanModes) /\ pcFail[1] # "ok") => present.tileMP = Pre.tileMP
    /\ lastOp \in {"applyModeAction", "setTileSize"} => ~err

\* C10: undo is a no-op exactly when the past is empty; otherwise it pops the
\* newest snapshot into present and pushes the current state onto the future;
\* undo right after a commit gives back the exact state before it
C10_UndoRestoresPreCommit ==
    /\ (undo(Prog) = Prog) <=> (past = <<>>)
    /\ past # <<>> =>
          /\ undo(Prog).past = Front(past)
          /\ undo(Prog).present = JSONparse(Last(past))
          /\ undo(Prog).future = Append(future, JSONstringify(present))
    /\ \A C \in {toggleSnap(Prog), clearDraft(Prog), changeMode(Prog, "select"),
                 applyModeAction(Prog, "ok", "ok")} :
          C.past # past => undo(C).present = present

\* the parts of C10 about the stacks, and the restored state up to the sign of zero
C10_UndoMechanics ==
    /\ (undo(Prog) = Prog) <=> (past = <<>>)
    /\ past # <<>> =>
          /\ undo(Prog).past = Front(past)
          /\ undo(Prog).present = JSONparse(Last(past))
          /\ undo(Prog).future = Append(future, JSONstringify(present))
    /\ \A C \in {toggleSnap(Prog), clearDraft(Prog), changeMode(Prog, "select"),
                 applyModeAction(Prog, "ok", "ok")} :
          C.past # past => JSONstringify(undo(C).present) = JSONstringify(present)

\* C11: the full-application reset, reset({...initial}), empties the past and
\* the future stack and makes the given state the present state; right after
\* it undo and redo are no-ops, whatever commits, undos and redos came before
C11_ResetClearsHistory ==
    LET R == onKeyReset(Prog)
    IN /\ R.past = <<>>
       /\ R.future = <<>>
       /\ R.present = initial
       /\ ~R.err
       /\ undo(R) = R
       /\ redo(R) = R

\* the r key was pressed after commits and undos, in a state that had a
\* redo to offer
C11_Witness ==
    /\ lastOp = "reset"
    /\ fuel < MaxPast
    /\ present = initial /\ past = <<>> /\ future = <<>>
    /\ ~canUndo /\ ~canRedo

\* C12: no two entries of the instance list have the same id, and addInstance
\* appends exactly one instance at (20,20) with rotation 0
C12_InstanceIdsUnique ==
    /\ \A j, k \in 1..Len(present.instances) :
          present.instances[j].id = present.instances[k].id => j = k
    /\ \A id \in Ids :
          LET R == addInstance(Prog, id).present
              n == Len(present.instances)
          IN /\ Len(R.instances) = n + 1
             /\ SubSeq(R.instances, 1, n) = present.instances
             /\ Val(R.instances[n + 1].x) = 20 /\ Val(R.instances[n + 1].y) = 20
             /\ R.instances[n + 1].rot = 0

\* the part of C12 about what addInstance appends
C12_AddInstanceAppends ==
    \A id \in Ids :
        LET R == addInstance(Prog, id).present
            n == Len(present.instances)
        IN /\ Len(R.instances) = n + 1
           /\ SubSeq(R.instances, 1, n) = present.instances
           /\ R.instances[n + 1] = [id |-> id, x |-> <<1, 20>>, y |-> <<1, 20>>, rot |-> 0]
           /\ [R EXCEPT !.instances = present.instances] = present

\* v is the multiple of d nearest to n
NearestMultiple(v, n, d) == v % d = 0 /\ 2 * (v - n) <= d /\ 2 * (n - v) <= d

\* what C13 says of a pointer move to <<lx, ly>>
UpdateDragAsSpecified(lx, ly) ==
    LET R == onAssemblyMouseMove(Prog, lx, ly)
        s == present
        d == dragging[1]
        k == FindInstance(s.instances, d.id)
        nx == lx - Val(d.off[1])
        ny == ly - Val(d.off[2])
    IN IF dragging = <<>> THEN R = Prog
       ELSE /\ Len(R.present.instances) = Len(s.instances)
            /\ \A j \in 1..Len(s.instances) :
                  j # k => R.present.instances[j] = s.instances[j]
            /\ k # 0 =>
                  LET i == R.present.instances[k]
                  IN /\ i.id = d.id /\ i.rot = s.instances[k].rot
                     /\ ~s.snap => Val(i.x) = nx /\ Val(i.y) = ny
                     /\ s.snap => /\ NearestMultiple(Val(i.x), nx, s.tileW)
                                  /\ NearestMultiple(Val(i.y), ny, s.tileH)

\* C13: a pointer move changes nothing when no drag is active; during a drag
\* it sets the origin of the dragged instance, and of no other instance, to the
\* pointer minus the recorded offset, rounded to the nearest multiple of tileW
\* and tileH when snap is on
C13_UpdateDrag ==
    \A p \in Pointers : UpdateDragAsSpecified(p[1], p[2])

\* C13 holds wherever the instance ids are unique
C13_FromUniqueIds ==
    (\A j, k \in 1..Len(present.instances) :
        present.instances[j].id = present.instances[k].id => j = k)
    => \A p \in Pointers : UpdateDragAsSpecified(p[1], p[2])

C14_ProtocolUpToHistory ==
    LET U == onAssemblyMouseUp(Prog)
    IN /\ \A id \in Ids, p \in Pointers :
             FindInstance(present.instances, id) = 0 =>
                 LET R == onAssemblyMouseDown(Prog, id, p[1], p[2])
                 IN R.present = present /\ R.dragging = dragging /\ ~R.err
       /\ U.dragging = <<>>
       /\ onAssemblyMouseUp(U) = U
       /\ \A p \in Pointers : onAssemblyMouseMove(U, p[1], p[2]) = U

\* a drag becomes active by a mouse down only
C14_DragStartsByMouseDown ==
    [][(dragging = <<>> /\ dragging' # <<>>) => lastOp' = "onAssemblyMouseDown"]_vars

\* C15: when the provider call does not raise, setTileSize(w,h) sets tileW = w
\* and tileH = h and makes the Tile Shape its part inside [0,w] x [0,h]; the
\* new Tile Shape is always a subset of the old one, and what a shrink removes
\* is exactly the part outside the new bounds
C15_SetTileSizeClips ==
    \A w \in TileInputs, h \in TileInputs :
        LET R == setTileSize(Prog, w, h, "ok").present
            old == present.tileMP
        IN /\ R.tileW = w /\ R.tileH = h
           /\ R.tileMP = Inside(old, w, h)
           /\ R.tileMP \subseteq old
           /\ old \ R.tileMP = old \ Inside(old, w, h)
           /\ [R EXCEPT !.tileW = present.tileW, !.tileH = present.tileH,
                        !.tileMP = old] = present
           /\ setTileSize(Prog, w, h, "clip").present.tileMP \subseteq old

\* the tile was made smaller and lost a part, and kept a part
C15_Witness ==
    /\ lastOp = "setTileSize"
    /\ pcFail = NoCalls
    /\ past # <<>>
    /\ present.tileW < Pre.tileW
    /\ present.tileMP # Pre.tileMP
    /\ present.tileMP # {}
    /\ present.tileMP = Inside(Pre.tileMP, present.tileW, present.tileH)

\* what C16 says of a click at p, `example` being the point that the click at
\* (23,57) registers as with snap on and gridSize 16
ClickAsSpecified(p, example) ==
    LET R == onEditorClick(Prog, p[1], p[2])
        s == present
        q == Last(R.present.draftShape)
    IN IF s.mode # "draw" THEN R = Prog
       ELSE /\ R.present = [s EXCEPT !.draftShape = Append(s.draftShape, q)]
            /\ s.snap => /\ NearestMultiple(q[1], p[1], s.gridSize)
                         /\ NearestMultiple(q[2], p[2], s.gridSize)
            /\ ~s.snap => q = p
            /\ (s.snap /\ s.gridSize = 16 /\ p = <<23, 57>>) => q = example

\* C16: in draw mode a click (inside the tile's bounds, as the editor's svg
\* delivers it) appends exactly one point: with snap on the multiples of
\* gridSize nearest to the click's coordinates, the click at (23,57)
\* registering as (24,56) for gridSize 16; with snap off the click point itself;
\* in any other mode a click appends nothing
C16_ClickSnapsToGrid ==
    \A p \in DrawClicks :
        withinBounds(p[1], p[2], present.tileW, present.tileH)
            => ClickAsSpecified(p, <<24, 56>>)

\* C16 as the code has it: the multiples of 16 nearest to (23,57) are (16,64)
C16_ClickSnapsToNearestMultiple ==
    \A p \in DrawClicks :
        withinBounds(p[1], p[2], present.tileW, present.tileH)
            => ClickAsSpecified(p, <<16, 64>>)

\* the click at (23,57) was registered, with snap on and gridSize 16
C16_Witness ==
    /\ lastOp = "onEditorClick"
    /\ present.snap /\ present.gridSize = 16
    /\ past # <<>>
    /\ Pre.snap /\ Pre.gridSize = 16 /\ Pre.mode = "draw"
    /\ present.draftShape = Append(Pre.draftShape, <<16, 64>>)

\* what C17 says of closing the list `in` into `out`; `closed` says when the
\* last point of the result counts as equal to its first
CloseAsSpecified(in, out, closed) ==
    Len(in) >= 3 =>
        /\ closed
        /\ (out = Append(in, in[1])) <=> (Dist2(in[1], Last(in)) > FineTol2)
        /\ SubSeq(out, 1, Len(in)) = in
        /\ Len(out) \in {Len(in), Len(in) + 1}
        /\ closeIfNeededIn(out, FineTol2) = out
        /\ (in[1] = Last(in)) => out = in

\* C17: for every list of >= 3 points closeIfNeeded gives a ring whose last
\* point equals its first; the first point is appended if and only if first
\* and last differ by more than the 1e-6 tolerance; the points keep their
\* order; closing a closed ring returns it unchanged
C17_CloseIfNeededClosesRing ==
    lastOp = "closeIfNeeded" =>
        LET in == Pre.draftShape
            out == present.draftShape
        IN CloseAsSpecified(in, out, Last(out) = out[1])

\* C17 with the ring closed up to the tolerance: the last point of the result
\* is within 1e-6 of its first
C17_CloseIfNeededClosesWithinTolerance ==
    lastOp = "closeIfNeeded" =>
        LET in == Pre.draftShape
            out == present.draftShape
        IN CloseAsSpecified(in, out, Dist2(out[1], Last(out)) <= FineTol2)

\* an open list of three points was closed by appending its first point
C17_Witness ==
    /\ lastOp = "closeIfNeeded"
    /\ Len(Pre.draftShape) = 3
    /\ Pre.draftShape[1] # Pre.draftShape[3]
    /\ present.draftShape = Append(Pre.draftShape, Pre.draftShape[1])

TileOps == {"applyModeAction", "resetTile", "setTileSize"}
InstanceOps == {"addInstance", "clearInstances", "onAssemblyMouseDown",
                "onAssemblyMouseMove", "onAssemblyMouseUp"}
HistoryOps == {"undo", "redo", "reset"}

\* the k-th instance is in both lists and is not where it was
Repositioned(old, new, k) ==
    /\ k <= Len(old) /\ k <= Len(new)
    /\ new[k].id = old[k].id
    /\ <<new[k].x, new[k].y>> # <<old[k].x, old[k].y>>

\* what C19 says of one step of a handler; `dragged(k)`: the step is a drag
\* step on the k-th instance
FrameAsSpecified(dragged(_)) ==
    /\ lastOp' = "changeMode" => present' = [present EXCEPT !.mode = present'.mode]
    /\ lastOp' \in TileOps => present'.instances = present.instances
    /\ lastOp' \in InstanceOps =>
          present' = [present EXCEPT !.instances = present'.instances]
    /\ lastOp' \notin HistoryOps =>
          \A k \in 1..Len(present.instances) :
              Repositioned(present.instances, present'.instances, k) =>
                  /\ lastOp' = "onAssemblyMouseMove"
                  /\ dragging # <<>>
                  /\ dragged(k)

\* what C19 says of the pointer moves that can come next
MovesAsSpecified(dragged(_)) ==
    \A p \in Pointers :
        LET R == onAssemblyMouseMove(Prog, p[1], p[2]).present
        IN /\ R = [present EXCEPT !.instances = R.instances]
           /\ \A k \in 1..Len(present.instances) :
                 Repositioned(present.instances, R.instances, k) =>
                     dragging # <<>> /\ dragged(k)

\* the mouse went down on the k-th instance: the first one with the id recorded
DraggedInstance(k) == k = FindInstance(present.instances, dragging[1].id)

\* the k-th instance has the id recorded at mouse down
DraggedId(k) == present.instances[k].id = dragging[1].id

\* C19: changing the mode changes only the mode field; applyBoolean,
\* applyCutSlide, resetTile and setTileSize leave the instance list unchanged;
\* addInstance, clearInstances and every drag step leave tile size, Tile Shape,
\* draft and mode unchanged; an existing instance's position changes only
\* through a drag step on that instance
C19_Independence ==
    /\ [][FrameAsSpecified(DraggedInstance)]_vars
    /\ []MovesAsSpecified(DraggedInstance)

\* C19 with the last clause read by id: a position changes only through a
\* drag step on an instance of that id
C19_IndependenceById ==
    /\ [][FrameAsSpecified(DraggedId)]_vars
    /\ []MovesAsSpecified(DraggedId)

\* what C20 says of one step: a handler that touches the history runs on the
\* present state that the handler before it left, and the snapshot it pushes
\* is that state
CommitAsSpecified ==
    /\ (past' # past \/ future' # future) => seen = present
    /\ Len(past') = Len(past) + 1 => Last(past') = JSONstringify(present)
    /\ Len(future') = Len(future) + 1 => Last(future') = JSONstringify(present)

\* C20: for any interleaving of events and renders, each commit, undo or redo
\* is applied to the Editor State and the stacks that the commit, undo or redo
\* before it produced: no handler computes from, or pushes as a snapshot, a
\* present state that an earlier handler has already replaced
C20_CommitsAtomic == [][CommitAsSpecified]_vars

\* C20 holds of the runs in which every render completes before the next event
C20_AtomicWhenRendered == [][CommitAsSpecified]_vars /\ [](seen = present)

\* the handler left the history as it was: no new past entry, the future kept
HistoryKept(R) == R.past = past /\ R.future = future

\* C21: an operation that leaves the Editor State unchanged (Apply on a draft
\* of fewer than 3 points, a mouse down on an instance, a pointer move during a
\* drag whose instance no longer exists) leaves the history unchanged: no new
\* past entry, the future not emptied, an available redo still available
C21_NoOpKeepsHistory ==
    /\ (Len(present.draftShape) < 3 /\ present.mode \in BooleanModes \cup CutModes) =>
          HistoryKept(applyModeAction(Prog, "ok", "ok"))
    /\ \A id \in Ids, p \in Pointers :
          FindInstance(present.instances, id) # 0 =>
              HistoryKept(onAssemblyMouseDown(Prog, id, p[1], p[2]))
    /\ (dragging # <<>> /\ FindInstance(present.instances, dragging[1].id) = 0) =>
          \A p \in Pointers : HistoryKept(onAssemblyMouseMove(Prog, p[1], p[2]))

\* what C21 starts from: these operations leave the Editor State unchanged
C21_NoOpKeepsState ==
    /\ (Len(present.draftShape) < 3 /\ present.mode \in BooleanModes \cup CutModes) =>
          applyModeAction(Prog, "ok", "ok").present = present
    /\ \A id \in Ids, p \in Pointers :
          FindInstance(present.instances, id) # 0 =>
              onAssemblyMouseDown(Prog, id, p[1], p[2]).present = present
    /\ (dragging # <<>> /\ FindInstance(present.instances, dragging[1].id) = 0) =>
          \A p \in Pointers : onAssemblyMouseMove(Prog, p[1], p[2]).present = present

\* C22: every point of the draft polygon lies within [0,tileW] x [0,tileH],
\* for every snap setting and every gridSize >= 2, after any sequence of draw
\* clicks, Enter-closes, setTileSize, gridSize changes, undo and redo
C22_DraftWithinBounds == DraftWithinBounds(present)

\* C22 for what a click appends with snap off: the clamped point is in bounds
C22_UnsnappedClickWithinBounds ==
    (~present.snap /\ present.mode = "draw") =>
        \A p \in DrawClicks :
            LET q == Last(onEditorClick(Prog, p[1], p[2]).present.draftShape)
            IN withinBounds(q[1], q[2], present.tileW, present.tileH)

====
